---- MODULE Spec2Model ----
(***************************************************************************)
(* Model of pprofweb (src/pprofweb.go): the session registry               *)
(* (server.pprofHandler guarded by server.pprofHandlerMutex), the          *)
(* per-session eviction timers, the namespaced router (startHTTP /         *)
(* servePprof) and the root handler that creates sessions.                 *)
(*                                                                         *)
(* Strings are TLA+ strings, used as sequences of characters.  Time is     *)
(* discrete: one Tick is fifteen seconds.                                   *)
(***************************************************************************)
EXTENDS Integers, Sequences, FiniteSets, TLC

(***************************************************************************)
(* Bounds of the model                                                     *)
(***************************************************************************)
\* largest configured --valid duration tried, in ticks
MaxValid == 3
\* most times the loader invokes the HTTPServer callback in one load
MaxCallbacks == 2
\* most timer-callback goroutines of one id that are spawned and not yet locking
MaxPendingCb == 1

(***************************************************************************)
(* Program constants                                                       *)
(***************************************************************************)
\* const pprofWebPath
pprofWebPath == "/pprofweb/"
\* time.Second*30 of the AfterFunc in startHTTP, in ticks of fifteen seconds
InitialTTL == 2

(***************************************************************************)
(* Inputs                                                                  *)
(***************************************************************************)
\* values uuid.New().String() can return
Ids == {"a", "b"}
\* goroutines serving requests to "/"
RootProcs == {"r1", "r2"}
\* goroutines serving requests under pprofWebPath
ServeProcs == {"s1", "s2"}
\* relative patterns of args.Handlers
Patterns == {"/", "/top"}
\* the -profiles flag
BasePaths == {"/srv"}
\* files that exist (os.Stat succeeds)
Files == {"/srv/trace.pb.gz", "/srv/notes.txt", "/secret.pb.gz", "/etc/passwd"}
\* request methods and paths reaching rootHandler
Methods == {"GET", "POST"}
RootPaths == {"/", "/favicon.ico"}
\* values of r.URL.Query().Get("profile")
Params == {"", "trace.pb.gz", "notes.txt", "missing.pb.gz", "missing.txt", "%zz",
           "../secret.pb.gz", "../../etc/passwd", "x/..%2Ftrace.pb.gz"}
\* request paths reaching servePprof
ServePaths == {"/pprofweb/", "/pprofweb/a", "/pprofweb/a/top", "/pprofweb/b/",
               "/pprofweb/zz/"}

(***************************************************************************)
(* strings, path, path/filepath, net/url                                   *)
(***************************************************************************)
HasPrefix(s, p) == Len(s) >= Len(p) /\ SubSeq(s, 1, Len(p)) = p

HasSuffix(s, p) == Len(s) >= Len(p) /\ SubSeq(s, Len(s) - Len(p) + 1, Len(s)) = p

TrimPrefix(s, p) == IF HasPrefix(s, p) THEN SubSeq(s, Len(p) + 1, Len(s)) ELSE s

\* strings.Split(s, "/"): the segments between the slashes, empty ones kept
RECURSIVE SplitFrom(_, _, _)
SplitFrom(s, i, cur) ==
    IF i > Len(s) THEN <<cur>>
    ELSE IF SubSeq(s, i, i) = "/" THEN <<cur>> \o SplitFrom(s, i + 1, "")
    ELSE SplitFrom(s, i + 1, cur \o SubSeq(s, i, i))

Split(s) == SplitFrom(s, 1, "")

RECURSIVE JoinSegs(_)
JoinSegs(segs) ==
    IF Len(segs) = 0 THEN ""
    ELSE IF Len(segs) = 1 THEN segs[1]
    ELSE segs[1] \o "/" \o JoinSegs(Tail(segs))

\* the lexical processing of path.Clean / filepath.Clean: "" and "." are
\* dropped, ".." removes the element before it, is dropped at the root and
\* is kept at the start of a relative path
RECURSIVE CleanSegs(_, _, _)
CleanSegs(segs, out, rooted) ==
    IF Len(segs) = 0 THEN out
    ELSE LET e == Head(segs)
             rest == Tail(segs)
         IN IF e = "" \/ e = "." THEN CleanSegs(rest, out, rooted)
            ELSE IF e = ".."
                 THEN IF Len(out) > 0 /\ out[Len(out)] # ".."
                      THEN CleanSegs(rest, SubSeq(out, 1, Len(out) - 1), rooted)
                      ELSE IF rooted THEN CleanSegs(rest, out, rooted)
                      ELSE CleanSegs(rest, Append(out, ".."), rooted)
                 ELSE CleanSegs(rest, Append(out, e), rooted)

Clean(p) ==
    IF p = "" THEN "."
    ELSE LET rooted == HasPrefix(p, "/")
             body == JoinSegs(CleanSegs(Split(p), <<>>, rooted))
         IN IF rooted THEN "/" \o body
            ELSE IF body = "" THEN "." ELSE body

\* path.Join / filepath.Join of two elements: empty elements are ignored,
\* the rest is joined with "/" and cleaned
Join(a, b) ==
    IF a = "" /\ b = "" THEN ""
    ELSE IF a = "" THEN Clean(b)
    ELSE IF b = "" THEN Clean(a)
    ELSE Clean(a \o "/" \o b)

HexDigits == {"0", "1", "2", "3", "4", "5", "6", "7", "8", "9",
              "A", "B", "C", "D", "E", "F", "a", "b", "c", "d", "e", "f"}

\* the character of an escape %XY, for the escapes the inputs use
Unhex(xy) ==
    IF xy = "2F" \/ xy = "2f" THEN "/"
    ELSE IF xy = "2E" \/ xy = "2e" THEN "."
    ELSE IF xy = "25" THEN "%"
    ELSE "?"

\* url.QueryUnescape: an error when a % is not followed by two hex digits
UnescapeOK(s) ==
    \A i \in 1..Len(s) :
        SubSeq(s, i, i) = "%" =>
            /\ i + 2 <= Len(s)
            /\ SubSeq(s, i + 1, i + 1) \in HexDigits
            /\ SubSeq(s, i + 2, i + 2) \in HexDigits

RECURSIVE UnescapeFrom(_, _)
UnescapeFrom(s, i) ==
    IF i > Len(s) THEN ""
    ELSE LET c == SubSeq(s, i, i)
         IN IF c = "%" THEN Unhex(SubSeq(s, i + 1, i + 2)) \o UnescapeFrom(s, i + 3)
            ELSE IF c = "+" THEN " " \o UnescapeFrom(s, i + 1)
            ELSE c \o UnescapeFrom(s, i + 1)

QueryUnescape(s) == UnescapeFrom(s, 1)

(***************************************************************************)
(* State                                                                   *)
(***************************************************************************)
VARIABLES
    profileValidDuration,  \* server.profileValidDuration, in ticks
    baseProfilesPath,      \* server.baseProfilesPath
    pprofHandler,          \* server.pprofHandler: id -> [mux, timer]
    mutex,                 \* server.pprofHandlerMutex: [w, active, readers]
    timers,                \* the time.Timer objects made by startHTTP
    cbPending,             \* id -> timer callbacks spawned, not yet in Lock()
    cb,                    \* the timer callback that is in Lock() or past it
    usedIds,               \* ids uuid.New() has returned
    root,                  \* the rootHandler goroutines
    serve,                 \* the servePprof goroutines
    idleFor,               \* id -> ticks since its timer was last armed (-1: never)
    renewed                \* id -> its timer was last armed by a Reset

vars == <<profileValidDuration, baseProfilesPath, pprofHandler, mutex, timers,
          cbPending, cb, usedIds, root, serve, idleFor, renewed>>

NoOne == "none"
NoCb == [id |-> "", pc |-> "none"]
NoBundle == [host |-> "", file |-> "", k |-> 0]
NoTag == [host |-> "", file |-> "", k |-> 0, pattern |-> ""]
\* a Go map with no keys
EmptyMap == [x \in {} |-> 0]
NoHandler == [mux |-> EmptyMap, timer |-> 0]

\* the largest age the bookkeeping of elapsed time distinguishes
AgeCap == profileValidDuration + 1

IdleRoot ==
    [pc |-> "idle", method |-> "", path |-> "", param |-> "", file |-> "",
     statted |-> FALSE, loaded |-> FALSE, id |-> "", calls |-> 0,
     registered |-> FALSE, args |-> NoBundle, mux |-> EmptyMap, timer |-> 0,
     dup |-> FALSE,
     status |-> 0, location |-> ""]

IdleServe ==
    [pc |-> "idle", path |-> "", id |-> "", handler |-> NoHandler,
     status |-> 0, by |-> NoTag]

Init ==
    /\ profileValidDuration \in 1..MaxValid
    /\ baseProfilesPath \in BasePaths
    /\ pprofHandler = EmptyMap
    /\ mutex = [w |-> NoOne, active |-> FALSE, readers |-> {}]
    /\ timers = <<>>
    /\ cbPending = [i \in Ids |-> 0]
    /\ cb = NoCb
    /\ usedIds = {}
    /\ root = [r \in RootProcs |-> IdleRoot]
    /\ serve = [s \in ServeProcs |-> IdleServe]
    /\ idleFor = [i \in Ids |-> -1]
    /\ renewed = [i \in Ids |-> FALSE]

(***************************************************************************)
(* sync.RWMutex: Lock() first excludes the other writers and closes the    *)
(* lock to new readers, then waits for the readers inside to leave         *)
(***************************************************************************)
CanLock == mutex.w = NoOne

LockRequested(who) == [mutex EXCEPT !.w = who, !.active = FALSE]

\* a Lock() that does not wait for the readers inside to leave
CanEnterEarly(who) == mutex.w = who /\ ~mutex.active

CanEnter(who) == mutex.w = who /\ ~mutex.active /\ mutex.readers = {}

LockEntered == [mutex EXCEPT !.active = TRUE]

\* an Unlock() that leaves the lock with the writer
StillLocked == mutex

Unlocked == [mutex EXCEPT !.w = NoOne, !.active = FALSE]

CanRLock == mutex.w = NoOne

RLocked(s) == [mutex EXCEPT !.readers = @ \cup {s}]

RUnlocked(s) == [mutex EXCEPT !.readers = @ \ {s}]

(***************************************************************************)
(* Go maps                                                                 *)
(***************************************************************************)
MapPut(m, k, v) == [x \in DOMAIN m \cup {k} |-> IF x = k THEN v ELSE m[x]]

MapDelete(m, k) == [x \in DOMAIN m \ {k} |-> m[x]]

(***************************************************************************)
(* rootHandler, lines 116-151: the checks before the loader is started     *)
(***************************************************************************)
Checked(st, f, statted) == [status |-> st, file |-> f, statted |-> statted]

\* a root handler without the extension test
ExtensionAllowedAny(f) == TRUE

\* the extension test of lines 140-141
ExtensionAllowed(f) == HasSuffix(f, ".pb.gz") \/ HasSuffix(f, ".pb.")

\* lines 138-139
ResolveProfile(base, decoded) == Join(base, Clean(decoded))

\* a root handler that looks for the file before it tests the extension
RootChecksStatFirst(base, method, path, param) ==
    IF method # "GET" THEN Checked(405, "", FALSE)
    ELSE IF path # "/" THEN Checked(404, "", FALSE)
    ELSE IF param = "" THEN Checked(200, "", FALSE)
    ELSE IF ~UnescapeOK(param) THEN Checked(400, "", FALSE)
    ELSE LET f == ResolveProfile(base, QueryUnescape(param))
         IN IF f \notin Files THEN Checked(404, f, TRUE)
            ELSE IF ~ExtensionAllowed(f) THEN Checked(400, f, TRUE)
            ELSE Checked(0, f, TRUE)

\* status 0: every check passed and the loader is started
RootChecks(base, method, path, param) ==
    IF method # "GET" THEN Checked(405, "", FALSE)
    ELSE IF path # "/" THEN Checked(404, "", FALSE)
    ELSE IF param = "" THEN Checked(200, "", FALSE)
    ELSE IF ~UnescapeOK(param) THEN Checked(400, "", FALSE)
    ELSE LET f == ResolveProfile(base, QueryUnescape(param))
         IN IF ~ExtensionAllowed(f) THEN Checked(400, f, FALSE)
            ELSE IF f \notin Files THEN Checked(404, f, TRUE)
            ELSE Checked(0, f, TRUE)

\* a request arrives at "/": lines 116-151.  When the checks pass, uuid.New()
\* returns id, which it has not returned before, and driver.PProf is entered.
RootRequest(r, method, path, param, id) ==
    /\ root[r].pc \in {"idle", "done"}
    /\ LET c == RootChecks(baseProfilesPath, method, path, param)
           req == [IdleRoot EXCEPT !.method = method, !.path = path,
                                   !.param = param, !.file = c.file,
                                   !.statted = c.statted]
       IN IF c.status # 0
          THEN /\ root' = [root EXCEPT ![r] = [req EXCEPT !.pc = "done",
                                                          !.status = c.status]]
               /\ UNCHANGED usedIds
          ELSE /\ id \notin usedIds
               /\ usedIds' = usedIds \cup {id}
               /\ root' = [root EXCEPT ![r] = [req EXCEPT !.pc = "loader",
                                                          !.id = id,
                                                          !.loaded = TRUE]]
    /\ UNCHANGED <<profileValidDuration, baseProfilesPath, pprofHandler, mutex,
                   timers, cbPending, cb, serve, idleFor, renewed>>

(***************************************************************************)
(* driver.PProf, the loader: it may fail, and it invokes options.HTTPServer *)
(* (server.startHTTP) with Host = id zero or more times before it returns   *)
(***************************************************************************)
\* driver.PProf returns an error: lines 180-184
LoaderFail(r) ==
    /\ root[r].pc = "loader"
    /\ root' = [root EXCEPT ![r].pc = "done", ![r].status = 500]
    /\ UNCHANGED <<profileValidDuration, baseProfilesPath, pprofHandler, mutex,
                   timers, cbPending, cb, usedIds, serve, idleFor, renewed>>

\* driver.PProf returns nil: line 186
LoaderReturn(r) ==
    /\ root[r].pc = "loader"
    /\ root' = [root EXCEPT ![r].pc = "done", ![r].status = 303,
                            ![r].location = Join(pprofWebPath, root[r].id)]
    /\ UNCHANGED <<profileValidDuration, baseProfilesPath, pprofHandler, mutex,
                   timers, cbPending, cb, usedIds, serve, idleFor, renewed>>

\* the loader calls startHTTP(args) with the handlers it built: line 54
LoaderCallback(r, most) ==
    /\ root[r].pc = "loader"
    /\ root[r].calls < most
    /\ root' = [root EXCEPT ![r].pc = "lock",
                            ![r].calls = @ + 1,
                            ![r].args = [host |-> root[r].id,
                                         file |-> root[r].file,
                                         k |-> root[r].calls + 1]]
    /\ UNCHANGED <<profileValidDuration, baseProfilesPath, pprofHandler, mutex,
                   timers, cbPending, cb, usedIds, serve, idleFor, renewed>>

(***************************************************************************)
(* server.startHTTP, lines 53-88                                           *)
(***************************************************************************)
\* line 55: Lock() is called; the lock is now closed to new readers
StartHTTPLock(r) ==
    /\ root[r].pc = "lock"
    /\ CanLock
    /\ mutex' = LockRequested(r)
    /\ root' = [root EXCEPT ![r].pc = "wait"]
    /\ UNCHANGED <<profileValidDuration, baseProfilesPath, pprofHandler, timers,
                   cbPending, cb, usedIds, serve, idleFor, renewed>>

\* line 55: Lock() returns once the readers have left
StartHTTPEnter(r) ==
    /\ root[r].pc = "wait"
    /\ CanEnter(r)
    /\ mutex' = LockEntered
    /\ root' = [root EXCEPT ![r].pc = "check"]
    /\ UNCHANGED <<profileValidDuration, baseProfilesPath, pprofHandler, timers,
                   cbPending, cb, usedIds, serve, idleFor, renewed>>

\* lines 64-68: the pattern under which a handler of the bundle is installed
JoinedPattern(id, pattern) ==
    IF pattern = "/" THEN pprofWebPath \o id \o "/"
    ELSE Join(pprofWebPath \o id \o "/", pattern)

\* lines 61-70: the mux of the session, joined pattern -> handler
NewMux(id, bundle) ==
    [jp \in {JoinedPattern(id, p) : p \in Patterns} |->
        LET p == CHOOSE q \in Patterns : JoinedPattern(id, q) = jp
        IN [host |-> bundle.host, file |-> bundle.file, k |-> bundle.k,
            pattern |-> p]]

\* a startHTTP that takes the id of one session for every registration
HostIdShared(args) == "a"

\* line 54: id := args.Host
HostId(args) == args.host

\* a startHTTP without the duplicate check of lines 57-59
IsRegisteredNever(id) == FALSE

\* line 57: the id is already registered, and startHTTP returns nil at line 58
IsRegistered(id) == id \in DOMAIN pprofHandler

\* lines 57-73: the duplicate check, then the mux is built
StartHTTPCheck(r) ==
    /\ root[r].pc = "check"
    /\ IF IsRegistered(HostId(root[r].args))
       THEN root' = [root EXCEPT ![r].pc = "unlock", ![r].dup = TRUE]
       ELSE root' = [root EXCEPT ![r].pc = "timer", ![r].dup = FALSE,
                                 ![r].mux = NewMux(HostId(root[r].args), root[r].args)]
    /\ UNCHANGED <<profileValidDuration, baseProfilesPath, pprofHandler, mutex,
                   timers, cbPending, cb, usedIds, serve, idleFor, renewed>>

\* line 75: the duration the new timer is armed with
NewTimerDuration == InitialTTL

\* line 75: time.AfterFunc arms a new timer whose callback closes over id
StartHTTPTimer(r) ==
    /\ root[r].pc = "timer"
    /\ timers' = Append(timers, [id |-> HostId(root[r].args),
                                 remaining |-> NewTimerDuration])
    /\ root' = [root EXCEPT ![r].pc = "insert", ![r].timer = Len(timers) + 1]
    /\ idleFor' = [idleFor EXCEPT ![HostId(root[r].args)] = 0]
    /\ renewed' = [renewed EXCEPT ![HostId(root[r].args)] = FALSE]
    /\ UNCHANGED <<profileValidDuration, baseProfilesPath, pprofHandler, mutex,
                   cbPending, cb, usedIds, serve>>

\* lines 82-85: the entry becomes visible in the map
Registered(r) ==
    MapPut(pprofHandler, HostId(root[r].args),
           [mux |-> root[r].mux, timer |-> root[r].timer])

StartHTTPInsert(r) ==
    /\ root[r].pc = "insert"
    /\ pprofHandler' = Registered(r)
    /\ root' = [root EXCEPT ![r].pc = "unlock", ![r].registered = TRUE]
    /\ UNCHANGED <<profileValidDuration, baseProfilesPath, mutex, timers,
                   cbPending, cb, usedIds, serve, idleFor, renewed>>

\* line 56: the deferred Unlock(); startHTTP returns nil to the loader
StartHTTPUnlock(r) ==
    /\ root[r].pc = "unlock"
    /\ mutex' = Unlocked
    /\ root' = [root EXCEPT ![r].pc = "loader", ![r].mux = EmptyMap,
                            ![r].timer = 0, ![r].dup = FALSE]
    /\ UNCHANGED <<profileValidDuration, baseProfilesPath, pprofHandler, timers,
                   cbPending, cb, usedIds, serve, idleFor, renewed>>

(***************************************************************************)
(* the timers and their callback, lines 75-80                              *)
(***************************************************************************)
\* a timer expires: the runtime starts a goroutine running the callback
TimerFire(t) ==
    /\ t \in 1..Len(timers)
    /\ timers[t].remaining = 0
    /\ cbPending[timers[t].id] < MaxPendingCb
    /\ timers' = [timers EXCEPT ![t].remaining = -1]
    /\ cbPending' = [cbPending EXCEPT ![timers[t].id] = @ + 1]
    /\ UNCHANGED <<profileValidDuration, baseProfilesPath, pprofHandler, mutex,
                   cb, usedIds, root, serve, idleFor, renewed>>

\* line 76: the callback calls Lock()
CallbackLock(id) ==
    /\ cbPending[id] > 0
    /\ CanLock
    /\ cb = NoCb
    /\ mutex' = LockRequested("cb")
    /\ cb' = [id |-> id, pc |-> "wait"]
    /\ cbPending' = [cbPending EXCEPT ![id] = @ - 1]
    /\ UNCHANGED <<profileValidDuration, baseProfilesPath, pprofHandler, timers,
                   usedIds, root, serve, idleFor, renewed>>

\* line 76: Lock() returns once the readers have left
CallbackEnter ==
    /\ cb.pc = "wait"
    /\ CanEnter("cb")
    /\ mutex' = LockEntered
    /\ cb' = [cb EXCEPT !.pc = "delete"]
    /\ UNCHANGED <<profileValidDuration, baseProfilesPath, pprofHandler, timers,
                   cbPending, usedIds, root, serve, idleFor, renewed>>

\* a callback that deletes nothing
EvictedNone(id) == pprofHandler

\* line 79
Evicted(id) == MapDelete(pprofHandler, id)

CallbackDelete ==
    /\ cb.pc = "delete"
    /\ pprofHandler' = Evicted(cb.id)
    /\ cb' = [cb EXCEPT !.pc = "unlock"]
    /\ UNCHANGED <<profileValidDuration, baseProfilesPath, mutex, timers,
                   cbPending, usedIds, root, serve, idleFor, renewed>>

\* line 77: the deferred Unlock()
CallbackUnlock ==
    /\ cb.pc = "unlock"
    /\ mutex' = Unlocked
    /\ cb' = NoCb
    /\ UNCHANGED <<profileValidDuration, baseProfilesPath, pprofHandler, timers,
                   cbPending, usedIds, root, serve, idleFor, renewed>>

\* fifteen seconds pass; a timer that is due expires before more time passes
Older(age) == IF age < 0 \/ age >= AgeCap THEN age ELSE age + 1

Tick ==
    /\ \A t \in 1..Len(timers) : timers[t].remaining # 0
    /\ timers' = [t \in 1..Len(timers) |->
                    IF timers[t].remaining > 0
                    THEN [timers[t] EXCEPT !.remaining = @ - 1]
                    ELSE timers[t]]
    /\ idleFor' = [i \in Ids |-> Older(idleFor[i])]
    /\ UNCHANGED <<profileValidDuration, baseProfilesPath, pprofHandler, mutex,
                   cbPending, cb, usedIds, root, serve, renewed>>

(***************************************************************************)
(* server.servePprof, lines 90-107                                         *)
(***************************************************************************)
\* an extraction that takes the last segment of the path
ExtractIdLast(path) ==
    LET parts == Split(TrimPrefix(path, pprofWebPath)) IN parts[Len(parts)]

\* lines 91-94: the id is the first segment after the prefix
ExtractId(path) == Split(TrimPrefix(path, pprofWebPath))[1]

\* a request arrives under pprofWebPath
ServeRequest(s, path) ==
    /\ serve[s].pc \in {"idle", "done"}
    /\ serve' = [serve EXCEPT ![s] = [IdleServe EXCEPT !.pc = "rlock",
                                                       !.path = path,
                                                       !.id = ExtractId(path)]]
    /\ UNCHANGED <<profileValidDuration, baseProfilesPath, pprofHandler, mutex,
                   timers, cbPending, cb, usedIds, root, idleFor, renewed>>

\* line 96: RLock() returns when no writer holds or awaits the lock
ServeRLock(s) ==
    /\ serve[s].pc = "rlock"
    /\ CanRLock
    /\ mutex' = RLocked(s)
    /\ serve' = [serve EXCEPT ![s].pc = "lookup"]
    /\ UNCHANGED <<profileValidDuration, baseProfilesPath, pprofHandler, timers,
                   cbPending, cb, usedIds, root, idleFor, renewed>>

\* a lookup that falls back to a session that exists when the id is unknown
LookupKeyFallback(s) ==
    IF serve[s].id \in DOMAIN pprofHandler \/ pprofHandler = EmptyMap
    THEN serve[s].id
    ELSE CHOOSE id \in DOMAIN pprofHandler : TRUE

\* line 99: the key looked up in the map
LookupKey(s) == serve[s].id

\* line 99: handler, ok := s.pprofHandler[id]
ServeLookup(s) ==
    /\ serve[s].pc = "lookup"
    /\ IF LookupKey(s) \in DOMAIN pprofHandler
       THEN serve' = [serve EXCEPT ![s].pc = "reset",
                                   ![s].handler = pprofHandler[LookupKey(s)]]
       ELSE serve' = [serve EXCEPT ![s].pc = "notfound"]
    /\ UNCHANGED <<profileValidDuration, baseProfilesPath, pprofHandler, mutex,
                   timers, cbPending, cb, usedIds, root, idleFor, renewed>>

\* line 100: the duration the timer is reset to
RenewDuration == profileValidDuration

\* a Reset that arms every timer of the server
TimerResetAll(t, d) == [x \in 1..Len(timers) |-> [timers[x] EXCEPT !.remaining = d]]

\* line 100: Timer.Reset(d) on the timer t
TimerReset(t, d) == [timers EXCEPT ![t].remaining = d]

\* line 100: handler.timer.Reset: the timer is armed again, expired or not
ServeReset(s) ==
    /\ serve[s].pc = "reset"
    /\ timers' = TimerReset(serve[s].handler.timer, RenewDuration)
    /\ serve' = [serve EXCEPT ![s].pc = "serve"]
    /\ idleFor' = [idleFor EXCEPT ![serve[s].id] = 0]
    /\ renewed' = [renewed EXCEPT ![serve[s].id] = TRUE]
    /\ UNCHANGED <<profileValidDuration, baseProfilesPath, pprofHandler, mutex,
                   cbPending, cb, usedIds, root>>

\* http.ServeMux: the registered pattern that serves a path, "" when none
MuxMatch(mux, path) ==
    IF path \in DOMAIN mux THEN path
    ELSE LET cands == {jp \in DOMAIN mux : HasSuffix(jp, "/") /\ HasPrefix(path, jp)}
         IN IF cands = {} THEN ""
            ELSE CHOOSE jp \in cands : \A o \in cands : Len(o) <= Len(jp)

\* line 101: handler.ServeHTTP: the session's mux dispatches on the whole path
ServeDispatch(s) ==
    /\ serve[s].pc = "serve"
    /\ LET mux == serve[s].handler.mux
           jp == MuxMatch(mux, serve[s].path)
       IN IF jp # ""
          THEN serve' = [serve EXCEPT ![s].pc = "runlock", ![s].status = 200,
                                      ![s].by = mux[jp]]
          ELSE IF (serve[s].path \o "/") \in DOMAIN mux
          THEN serve' = [serve EXCEPT ![s].pc = "runlock", ![s].status = 301]
          ELSE serve' = [serve EXCEPT ![s].pc = "runlock", ![s].status = 404]
    /\ UNCHANGED <<profileValidDuration, baseProfilesPath, pprofHandler, mutex,
                   timers, cbPending, cb, usedIds, root, idleFor, renewed>>

\* line 105: the id is not registered
ServeNotFound(s) ==
    /\ serve[s].pc = "notfound"
    /\ serve' = [serve EXCEPT ![s].pc = "runlock", ![s].status = 404]
    /\ UNCHANGED <<profileValidDuration, baseProfilesPath, pprofHandler, mutex,
                   timers, cbPending, cb, usedIds, root, idleFor, renewed>>

\* line 97: the deferred RUnlock()
ServeRUnlock(s) ==
    /\ serve[s].pc = "runlock"
    /\ mutex' = RUnlocked(s)
    /\ serve' = [serve EXCEPT ![s].pc = "done", ![s].handler = NoHandler]
    /\ UNCHANGED <<profileValidDuration, baseProfilesPath, pprofHandler, timers,
                   cbPending, cb, usedIds, root, idleFor, renewed>>

(***************************************************************************)
(* Specification                                                           *)
(***************************************************************************)
\* the steps of the root goroutines RP taking requests from MS x PS x QS, with
\* uuid.New() drawing from IS and the loader calling back at most CB times
RootNext(RP, MS, PS, QS, IS, CB) ==
    \/ \E r \in RP, m \in MS, p \in PS, q \in QS, id \in IS :
           RootRequest(r, m, p, q, id)
    \/ \E r \in RP : LoaderFail(r)
    \/ \E r \in RP : LoaderReturn(r)
    \/ \E r \in RP : LoaderCallback(r, CB)
    \/ \E r \in RP : StartHTTPLock(r)
    \/ \E r \in RP : StartHTTPEnter(r)
    \/ \E r \in RP : StartHTTPCheck(r)
    \/ \E r \in RP : StartHTTPTimer(r)
    \/ \E r \in RP : StartHTTPInsert(r)
    \/ \E r \in RP : StartHTTPUnlock(r)

\* the steps of the timers and of time
TimerNext ==
    \/ \E t \in 1..Len(timers) : TimerFire(t)
    \/ \E id \in Ids : CallbackLock(id)
    \/ CallbackEnter
    \/ CallbackDelete
    \/ CallbackUnlock
    \/ Tick

\* the steps of the serve goroutines SP taking requests for the paths SPs
ServeNext(SP, SPs) ==
    \/ \E s \in SP, p \in SPs : ServeRequest(s, p)
    \/ \E s \in SP : ServeRLock(s)
    \/ \E s \in SP : ServeLookup(s)
    \/ \E s \in SP : ServeReset(s)
    \/ \E s \in SP : ServeDispatch(s)
    \/ \E s \in SP : ServeNotFound(s)
    \/ \E s \in SP : ServeRUnlock(s)

\* one session: one creation request at a time and one client
Next ==
    \/ RootNext({"r1"}, {"GET"}, {"/"}, {"trace.pb.gz"}, {"a"}, MaxCallbacks)
    \/ TimerNext
    \/ ServeNext({"s1"}, {"/pprofweb/", "/pprofweb/a", "/pprofweb/a/top",
                          "/pprofweb/zz/"})

Spec == Init /\ [][Next]_vars

\* two sessions created concurrently from the same file, and one client
NextTwo ==
    \/ RootNext({"r1"}, {"GET"}, {"/"}, {"trace.pb.gz"}, {"a"}, 1)
    \/ RootNext({"r2"}, {"GET"}, {"/"}, {"trace.pb.gz"}, {"b"}, 1)
    \/ TimerNext
    \/ ServeNext({"s1"}, {"/pprofweb/a/top", "/pprofweb/b/"})

InitTwo == Init /\ profileValidDuration = 1

SpecTwo == InitTwo /\ [][NextTwo]_vars

\* one session and two clients
NextReaders ==
    \/ RootNext({"r1"}, {"GET"}, {"/"}, {"trace.pb.gz"}, {"a"}, 1)
    \/ TimerNext
    \/ ServeNext(ServeProcs, {"/pprofweb/a/top"})

SpecReaders == InitTwo /\ [][NextReaders]_vars

\* the root handler alone, with every kind of request
NextRoot == RootNext({"r1"}, Methods, RootPaths, Params, Ids, MaxCallbacks)

SpecRoot == InitTwo /\ [][NextRoot]_vars

\* the scheduling the runtime guarantees: time passes, an expired timer
\* starts its callback, a goroutine that can take a step takes it, and a
\* goroutine that calls Lock() or RLock() gets the lock when it keeps being
\* free.  The arrival of requests and the choices of the loader are not forced.
Fairness ==
    /\ WF_vars(Tick)
    /\ WF_vars(\E t \in 1..Len(timers) : TimerFire(t))
    /\ SF_vars(\E id \in Ids : CallbackLock(id))
    /\ WF_vars(CallbackEnter)
    /\ WF_vars(CallbackDelete)
    /\ WF_vars(CallbackUnlock)
    /\ \A r \in RootProcs :
           /\ SF_vars(StartHTTPLock(r))
           /\ WF_vars(StartHTTPEnter(r))
           /\ WF_vars(StartHTTPCheck(r))
           /\ WF_vars(StartHTTPTimer(r))
           /\ WF_vars(StartHTTPInsert(r))
           /\ WF_vars(StartHTTPUnlock(r))
    /\ \A s \in ServeProcs :
           /\ SF_vars(ServeRLock(s))
           /\ WF_vars(ServeLookup(s))
           /\ WF_vars(ServeReset(s))
           /\ WF_vars(ServeDispatch(s))
           /\ WF_vars(ServeNotFound(s))
           /\ WF_vars(ServeRUnlock(s))

\* one session, re-created by the loader's repeated callbacks, and one client
\* of it, under fair scheduling
NextLive ==
    \/ RootNext({"r1"}, {"GET"}, {"/"}, {"trace.pb.gz"}, {"a"}, MaxCallbacks)
    \/ TimerNext
    \/ ServeNext({"s1"}, {"/pprofweb/a/top"})

SpecLive == InitTwo /\ [][NextLive]_vars /\ Fairness

(***************************************************************************)
(* Properties                                                              *)
(***************************************************************************)
\* the id is in the registry
Live(id) == id \in DOMAIN pprofHandler

\* C1: a session whose timer a request has reset is not removed from the
\* registry before profileValidDuration has passed since that reset.
C1_NoEvictionAfterAccess ==
    \A id \in Ids :
        (renewed[id] /\ idleFor[id] < profileValidDuration) => Live(id)

\* C2 (its first part): a session that was created and has had no request
\* since is found by a lookup made less than profileValidDuration later.
C2_FoundUntilValidDuration ==
    \A s \in ServeProcs :
        serve[s].pc = "notfound" /\ serve[s].id \in Ids
            => ~(/\ idleFor[serve[s].id] >= 0
                 /\ ~renewed[serve[s].id]
                 /\ idleFor[serve[s].id] < profileValidDuration)

\* the registry and its timers are left as they are by a step
RegistryUnchanged == pprofHandler' = pprofHandler /\ timers' = timers

\* C3: a startHTTP for an id that is registered returns nil and leaves the
\* registry and the timers unchanged, and the entry of an id stays the same
\* for as long as the id stays registered.
C3_Step ==
    /\ \A id \in DOMAIN pprofHandler :
           id \in DOMAIN pprofHandler' => pprofHandler'[id] = pprofHandler[id]
    /\ \A r \in RootProcs :
           /\ (/\ root[r].pc = "check"
               /\ root[r].args.host \in DOMAIN pprofHandler
               /\ root'[r] # root[r])
                 => /\ root'[r].pc = "unlock"
                    /\ root'[r].dup
                    /\ RegistryUnchanged
           /\ (root[r].pc = "unlock" /\ root[r].dup /\ root'[r] # root[r])
                 => /\ root'[r].pc = "loader"
                    /\ root'[r].status = 0
                    /\ RegistryUnchanged

\* C3: every step of the server keeps registration idempotent (C3_Step).
C3_IdempotentRegistration == [][C3_Step]_vars

\* a second startHTTP for a live id, with another bundle, is about to return
C3_Witness ==
    \E r \in RootProcs :
        /\ root[r].pc = "unlock"
        /\ root[r].dup
        /\ Live(root[r].args.host)
        /\ \A jp \in DOMAIN pprofHandler[root[r].args.host].mux :
               pprofHandler[root[r].args.host].mux[jp].k # root[r].args.k

\* C4: after a lookup that found the session, and with no request since, a
\* lookup made less than profileValidDuration later finds the session.
C4_RenewalDeadline ==
    \A s \in ServeProcs :
        serve[s].pc = "notfound" /\ serve[s].id \in Ids
            => ~(renewed[serve[s].id] /\ idleFor[serve[s].id] < profileValidDuration)

\* C5: a request whose id is not in the registry is answered 404, no handler
\* of any session is invoked for it, and it leaves the registry unchanged.
C5_Step ==
    \A s \in ServeProcs :
        /\ (/\ serve[s].pc = "lookup"
            /\ serve[s].id \notin DOMAIN pprofHandler
            /\ serve'[s] # serve[s])
              => /\ serve'[s].pc = "notfound"
                 /\ serve'[s].handler = NoHandler
                 /\ RegistryUnchanged
        /\ (serve[s].pc = "notfound" /\ serve'[s] # serve[s])
              => /\ serve'[s].pc = "runlock"
                 /\ serve'[s].status = 404
                 /\ serve'[s].by = NoTag
                 /\ RegistryUnchanged
        /\ (/\ serve[s].pc = "runlock"
            /\ serve[s].handler = NoHandler
            /\ serve'[s] # serve[s])
              => /\ serve'[s].pc = "done"
                 /\ serve'[s].status = 404
                 /\ serve'[s].by = NoTag
                 /\ RegistryUnchanged

\* C5: every step of a request for an unregistered id is as C5_Step says.
C5_UnknownSessionNotFound == [][C5_Step]_vars

\* a request for a session that was evicted before the lookup has been
\* answered 404 and still holds the read lock
C5_Witness ==
    \E s \in ServeProcs :
        /\ serve[s].pc = "runlock"
        /\ serve[s].handler = NoHandler
        /\ serve[s].status = 404
        /\ serve[s].id \in Ids
        /\ idleFor[serve[s].id] >= 0
        /\ ~Live(serve[s].id)

\* the path lies under the namespaced prefix of the session id
UnderSession(path, id) ==
    path = pprofWebPath \o id \/ HasPrefix(path, pprofWebPath \o id \o "/")

\* C6: a request whose path lies under the prefix of session A is handed only
\* A's handler bundle and is served only by a handler of A's bundle, the
\* bundle the loader built for the id A.
C6_RoutingIsolation ==
    \A s \in ServeProcs : \A A \in Ids :
        UnderSession(serve[s].path, A)
            => /\ serve[s].by # NoTag => serve[s].by.host = A
               /\ \A jp \in DOMAIN serve[s].handler.mux :
                      serve[s].handler.mux[jp].host = A

\* two sessions made from the same file are live and a request under the
\* prefix of the first has been served by its bundle
C6_Witness ==
    /\ Live("a") /\ Live("b")
    /\ \A ja \in DOMAIN pprofHandler["a"].mux, jb \in DOMAIN pprofHandler["b"].mux :
           pprofHandler["a"].mux[ja].file = pprofHandler["b"].mux[jb].file
    /\ \E s \in ServeProcs :
           /\ serve[s].pc = "runlock"
           /\ serve[s].status = 200
           /\ UnderSession(serve[s].path, "a")
           /\ serve[s].by.host = "a"

\* C7: once more than profileValidDuration has passed since a session was
\* created, with no request since, a lookup of its id does not find it and
\* a startHTTP for its id is not treated as a duplicate.
C7_EvictionTerminal ==
    /\ \A s \in ServeProcs :
           serve[s].pc = "reset" /\ serve[s].id \in Ids
               => ~(~renewed[serve[s].id]
                    /\ idleFor[serve[s].id] > profileValidDuration)
    /\ \A r \in RootProcs :
           root[r].pc = "unlock" /\ root[r].dup
               => ~(~renewed[root[r].args.host]
                    /\ idleFor[root[r].args.host] > profileValidDuration)

\* the critical sections of the three mutations of the registry
Registering(r) == root[r].pc \in {"check", "timer", "insert", "unlock"}
Evicting == cb.pc \in {"delete", "unlock"}
Renewing(s) == serve[s].pc = "reset"

\* C8: at most one of the registrations, renewals and evictions is inside
\* its critical section.
C8_MutualExclusion ==
    Cardinality({r \in RootProcs : Registering(r)})
      + Cardinality({s \in ServeProcs : Renewing(s)})
      + (IF Evicting THEN 1 ELSE 0) <= 1

\* the path p lies in the directory base
InsideBase(base, p) ==
    LET b == Clean(base)
    IN IF b = "/" THEN HasPrefix(p, "/")
       ELSE IF b = "." THEN ~HasPrefix(p, "/") /\ p # ".." /\ ~HasPrefix(p, "../")
       ELSE p = b \/ HasPrefix(p, b \o "/")

\* the request of r names, once decoded, a file outside the base directory
Traversal(r) ==
    /\ root[r].pc # "idle"
    /\ root[r].method = "GET"
    /\ root[r].path = "/"
    /\ root[r].param # ""
    /\ UnescapeOK(root[r].param)
    /\ ~InsideBase(baseProfilesPath,
                   Join(baseProfilesPath, QueryUnescape(root[r].param)))

\* C9: a profile parameter that resolves outside the base directory is
\* answered 400, without a check that the file exists and without the loader.
C9_TraversalRejected ==
    \A r \in RootProcs :
        Traversal(r) => /\ root[r].status = 400
                        /\ ~root[r].statted
                        /\ ~root[r].loaded

\* C10: a request that is answered with the 303 redirect has registered a
\* session under the id it redirects to.
C10_RedirectImpliesRegistered ==
    \A r \in RootProcs :
        root[r].status = 303
            => /\ root[r].location = Join(pprofWebPath, root[r].id)
               /\ root[r].registered

\* the 4xx answers of the root handler
ClientErrors == {400, 404, 405}

\* the request q of a root goroutine that fails a check has the answer of
\* that check, and a request with a 4xx answer has neither entered the
\* loader nor registered anything
C11_Rejected(q) ==
    /\ q.pc # "idle" =>
         /\ q.method # "GET" => q.status = 405
         /\ (q.method = "GET" /\ q.path # "/") => q.status = 404
         /\ (q.method = "GET" /\ q.path = "/" /\ q.param # "") =>
              IF ~UnescapeOK(q.param) THEN q.status = 400
              ELSE LET f == ResolveProfile(baseProfilesPath, QueryUnescape(q.param))
                   IN IF ~HasSuffix(f, ".pb.gz") /\ ~HasSuffix(f, ".pb.")
                      THEN q.status = 400
                      ELSE f \notin Files => q.status = 404
    /\ q.status \in ClientErrors =>
         /\ q.pc = "done"
         /\ ~q.loaded
         /\ q.calls = 0
         /\ ~q.registered

C11_Step ==
    \A r \in RootProcs :
        /\ C11_Rejected(root'[r])
        /\ (root'[r] # root[r] /\ root'[r].status \in ClientErrors)
              => RegistryUnchanged /\ usedIds' = usedIds

\* C11: a request to the root handler that fails a check (method, path,
\* decoding, extension, existence) is answered with the 4xx of that check,
\* the loader is not invoked for it, and the step that answers it leaves
\* the registry and the timers unchanged.
C11_ChecksBeforeLoader == [][C11_Step]_vars

\* a request for a missing file has been answered 404 while a session made
\* by an earlier request is registered
C11_Witness ==
    \E r \in RootProcs :
        /\ root[r].pc = "done"
        /\ root[r].status = 404
        /\ root[r].param = "missing.pb.gz"
        /\ ~root[r].loaded
        /\ pprofHandler # EmptyMap

\* C12: a parameter whose resolved path does not end in an allowed extension
\* is answered 400 without a look at the file system, whether the file
\* exists or not, and a parameter that resolves to an existing file ending
\* in .pb.gz enters the loader.
C12_ExtensionAllowList ==
    \A r \in RootProcs :
        (/\ root[r].pc # "idle"
         /\ root[r].method = "GET"
         /\ root[r].path = "/"
         /\ root[r].param # ""
         /\ UnescapeOK(root[r].param))
          => LET f == ResolveProfile(baseProfilesPath, QueryUnescape(root[r].param))
             IN /\ (~HasSuffix(f, ".pb.gz") /\ ~HasSuffix(f, ".pb."))
                     => /\ root[r].status = 400
                        /\ ~root[r].statted
                        /\ ~root[r].loaded
                /\ (HasSuffix(f, ".pb.gz") /\ f \in Files)
                     => /\ root[r].loaded
                        /\ root[r].status \notin ClientErrors

\* a request for a file that does not exist and has a disallowed extension
\* has been answered 400
C12_Witness ==
    \E r \in RootProcs :
        /\ root[r].pc = "done"
        /\ root[r].param = "missing.txt"
        /\ root[r].file \notin Files
        /\ root[r].status = 400

\* the goroutine r is inside startHTTP, between Lock() and Unlock()
InStartHTTP(r) == root[r].pc \in {"wait", "check", "timer", "insert", "unlock"}

\* C13: a creation request that is inside the loader and not inside startHTTP
\* holds neither the write lock nor a read lock; the write lock is with a
\* goroutine that is inside startHTTP or the timer callback, so that the
\* lock is free for lookups and registrations whenever no such goroutine
\* exists.
C13_LoaderOutsideLock ==
    /\ \A r \in RootProcs :
           root[r].pc = "loader" => mutex.w # r /\ r \notin mutex.readers
    /\ mutex.w # NoOne =>
           \/ mutex.w \in RootProcs /\ InStartHTTP(mutex.w)
           \/ mutex.w = "cb" /\ cb # NoCb
    /\ ((\E r \in RootProcs : root[r].pc = "loader")
          /\ (\A r \in RootProcs : ~InStartHTTP(r))
          /\ cb = NoCb)
         => CanLock /\ CanRLock

\* while a creation request is inside the loader, after a first registration,
\* a request for another session has been looked up and served
C13_Witness ==
    \E r \in RootProcs, s \in ServeProcs :
        /\ root[r].pc = "loader"
        /\ root[r].calls = 1
        /\ serve[s].pc = "runlock"
        /\ serve[s].status = 200
        /\ serve[s].id # root[r].id

\* C14: every id in the registry is bound to an entry with a mux of handlers
\* and a timer made for that id, and between the creation of the timer and
\* the insertion of the entry no request is past RLock() and no timer
\* callback is past Lock().
C14_NoHalfConstructed ==
    /\ \A id \in DOMAIN pprofHandler :
           /\ pprofHandler[id].mux # EmptyMap
           /\ pprofHandler[id].timer \in 1..Len(timers)
           /\ timers[pprofHandler[id].timer].id = id
    /\ \A r \in RootProcs :
           root[r].pc = "insert"
               => /\ mutex.w = r /\ mutex.active
                  /\ \A s \in ServeProcs :
                         serve[s].pc \notin {"lookup", "reset", "serve",
                                             "notfound", "runlock"}
                  /\ cb.pc \notin {"delete", "unlock"}

\* a request for the session is waiting in RLock() while the timer of the
\* session exists and its entry is not yet in the map
C14_Witness ==
    \E r \in RootProcs, s \in ServeProcs :
        /\ root[r].pc = "insert"
        /\ ~Live(root[r].args.host)
        /\ serve[s].pc = "rlock"
        /\ serve[s].id = root[r].args.host

\* a request for the session id has arrived and is at or before its lookup
Requested(id) ==
    \E s \in ServeProcs :
        serve[s].id = id /\ serve[s].pc \in {"rlock", "lookup", "reset"}

\* C15: under fair scheduling, a session for which requests stop arriving
\* is removed from the registry and stays removed: either requests for the
\* id keep arriving, or from some point on the id is not registered.
C15_EventualEviction ==
    \A id \in Ids : ([]<>Requested(id)) \/ (<>[]~Live(id))

\* a session that was renewed by a request has been evicted by the callback
\* of its timer, whose goroutine has ended, and no request is in flight
C15_Witness ==
    \E id \in Ids :
        /\ renewed[id]
        /\ ~Live(id)
        /\ cb = NoCb
        /\ cbPending[id] = 0
        /\ \A s \in ServeProcs : serve[s].pc \in {"idle", "done"}

\* the timer t is armed: it has not expired since it was made or last reset
Armed(t) == timers[t].remaining >= 0

\* C16: every armed timer is the timer of the registry entry of its id (or
\* of the entry that the startHTTP which made it is about to insert), so
\* that no armed timer exists for an id that is absent from the registry or
\* for an earlier incarnation of a registered id.
C16_TimerRegistryConsistency ==
    \A t \in 1..Len(timers) :
        Armed(t) =>
            \/ Live(timers[t].id) /\ pprofHandler[timers[t].id].timer = t
            \/ \E r \in RootProcs : root[r].pc = "insert" /\ root[r].timer = t

\* a writer in Lock() or a reader in RLock() that cannot go on
WriterWaits(w) == mutex.w = w /\ ~mutex.active /\ ~CanEnter(w)
ReaderWaits(s) == serve[s].pc = "rlock" /\ ~CanRLock

\* C17: while the handler of a session is executing for one request, no
\* registration and no eviction is held in Lock() by the read lock of that
\* request, and no request for another session is held in RLock().
C17_HandlerBlocksNoOne ==
    \A s \in ServeProcs :
        serve[s].pc = "serve"
            => /\ \A r \in RootProcs : ~(root[r].pc = "wait" /\ WriterWaits(r))
               /\ ~(cb.pc = "wait" /\ WriterWaits("cb"))
               /\ \A o \in ServeProcs \ {s} :
                      ~(ReaderWaits(o) /\ serve[o].id # serve[s].id)

\* C18 (one step): a step of a servePprof request leaves the map as it is,
\* with every id and every entry, and changes no timer but the one of the
\* entry it found, which it arms again; a step that adds an id is the
\* insertion of a startHTTP for that id and a step that removes an id is
\* the delete of a timer callback for that id.
C18_Step ==
    /\ \A s \in ServeProcs :
           serve'[s] # serve[s]
               => /\ pprofHandler' = pprofHandler
                  /\ Len(timers') = Len(timers)
                  /\ \A t \in 1..Len(timers) :
                         timers'[t] # timers[t]
                             => /\ serve[s].pc = "reset"
                                /\ serve[s].id \in DOMAIN pprofHandler
                                /\ t = pprofHandler[serve[s].id].timer
                                /\ timers'[t] = [timers[t] EXCEPT
                                                   !.remaining = profileValidDuration]
    /\ \A id \in DOMAIN pprofHandler' \ DOMAIN pprofHandler :
           \E r \in RootProcs :
               /\ root[r].pc = "insert"
               /\ root[r].args.host = id
               /\ root'[r].pc = "unlock"
    /\ \A id \in DOMAIN pprofHandler \ DOMAIN pprofHandler' :
           cb.pc = "delete" /\ cb.id = id /\ cb'.pc = "unlock"

\* C18: every step of the server is as C18_Step says.
C18_LookupFrame == [][C18_Step]_vars

\* a request has found the re-created session and reset its timer, while the
\* timer of the earlier incarnation exists
C18_Witness ==
    \E s \in ServeProcs :
        /\ serve[s].pc = "serve"
        /\ Len(timers) = 2
        /\ serve[s].handler.timer = 2
        /\ timers[2].remaining = profileValidDuration
        /\ Live(serve[s].id)

\* C19: every path installed for a session id is pprofWebPath, the id and
\* the pattern of the loader, one path for each pattern, with the root
\* pattern installed as pprofWebPath, the id and "/"; and the id that
\* servePprof extracts from an installed path, and looks up for a request
\* to it, is that id.
C19_NamespaceRoundTrip ==
    /\ \A id \in DOMAIN pprofHandler :
           /\ DOMAIN pprofHandler[id].mux = {pprofWebPath \o id \o p : p \in Patterns}
           /\ pprofWebPath \o id \o "/" \in DOMAIN pprofHandler[id].mux
           /\ \A jp \in DOMAIN pprofHandler[id].mux :
                  /\ jp = pprofWebPath \o id \o pprofHandler[id].mux[jp].pattern
                  /\ ExtractId(jp) = id
                  /\ \A s \in ServeProcs :
                         (serve[s].pc # "idle" /\ serve[s].path = jp)
                             => serve[s].id = id
    /\ \A r \in RootProcs :
           root[r].pc \in {"timer", "insert"}
               => \A jp \in DOMAIN root[r].mux :
                      /\ jp = pprofWebPath \o root[r].args.host \o root[r].mux[jp].pattern
                      /\ ExtractId(jp) = root[r].args.host

\* two sessions are registered and a request to an installed path of the
\* second has found it
C19_Witness ==
    /\ Live("a") /\ Live("b")
    /\ \E s \in ServeProcs :
           /\ serve[s].pc = "reset"
           /\ serve[s].path \in DOMAIN pprofHandler["b"].mux
           /\ serve[s].id = "b"

====
